---- MODULE Spec2Model ----
(***************************************************************************)
(* Layer shortcuts plugin: the shortcut executor (trigger_shortcut with    *)
(* update_layer_list / remove_layer_list / select_layer) and the menu and  *)
(* shortcut-conflict set-up (setup, check_for_ambiguous_shortcuts,         *)
(* reset_menu) of pymacros/layer_shortcuts_plugin.py, over the             *)
(* configuration data model of pymacros/pdk_info.py.                       *)
(***************************************************************************)
EXTENDS Integers, Sequences, FiniteSets, TLC

\* ------------------------------------------------------------------ bounds
MaxLayers == 4       \* layers in the source layer list (list 0)
MaxLayerLists == 3   \* layer tabs of the view, the source list included
MaxDeferred == 1     \* closures waiting in the event loop
MaxFiles == 3        \* *.json files found on the search path

\* ----------------------------------------------------------- small helpers
Range(s) == {s[i] : i \in 1..Len(s)}

\* Optional values: None is the empty sequence, Some(x) a one-element one.
None == <<>>
Some(x) == <<x>>

\* --------------------------------------------------- pdk_info.py data model
LayerDescriptorKind == {"none", "all", "layers", "layer_groups"}

ActionKind == {"reset_and_show_all_layers", "reset_and_hide_all_layers",
               "hide_layers", "show_layers", "select_layers"}

NamedLayerGroup(n, ls) == [name |-> n, layers |-> ls]

LayerDescriptor(k, ls, gs) == [kind |-> k, layers |-> ls, layer_groups |-> gs]

Action(k, d) == [kind |-> k, layers |-> d]

Shortcut(t, k, as) == [title |-> t, key |-> k, actions |-> as]

\* The group definitions of the example configuration, cut down to the
\* Metal1/Metal2 groups (Metal1.Visible as in the specification's example).
layer_group_definitions ==
    << NamedLayerGroup("Metal1.Visible",
                       <<"Metal1.drawing", "Via1.drawing", "Cont.drawing">>),
       NamedLayerGroup("Metal1.Selected", <<"Metal1.drawing">>),
       NamedLayerGroup("Metal2.Visible",
                       <<"Metal2.drawing", "Via1.drawing">>) >>

\* PDKInfo.layer_groups looking for the first of `names` only.
layer_groups_first_name_only(names) ==
    SelectSeq(layer_group_definitions,
              LAMBDA g : names # <<>> /\ g.name = names[1])

\* PDKInfo.layer_groups: the definitions whose name is among `names`, in
\* definition order; a name without a definition selects nothing.
layer_groups(names) ==
    SelectSeq(layer_group_definitions, LAMBDA g : g.name \in Range(names))

\* ------------------------------------------------------------ host objects
\* A layer of a layer list (pya.LayerProperties): name may be empty.
LayerProperties(n, s, v) == [name |-> n, source |-> s, visible |-> v]

AllLayers ==
    << LayerProperties("", "", TRUE),
       LayerProperties("Metal2.drawing", "10/0@1", TRUE),
       LayerProperties("Metal1.drawing", "8/0@1", TRUE),
       LayerProperties("Via1.drawing", "19/0@1", TRUE),
       LayerProperties("Cont.drawing", "6/0@1", TRUE),
       LayerProperties("", "99/0@1", TRUE) >>

\* The layer snapshots a view may start with: the runs of up to MaxLayers
\* consecutive layers of AllLayers that start at its first or second layer.
Snapshots ==
    {SubSeq(AllLayers, i, j) :
        i \in 1..2,
        j \in 0..Len(AllLayers)} \cap
    UNION {[1..n -> Range(AllLayers)] : n \in 0..MaxLayers}

\* The snapshots of a view on a host without LayoutView.layer_list_name, where
\* every shortcut adds a tab: the empty one and the one-layer ones.
LegacySnapshots == {s \in Snapshots : Len(s) <= 1}

VARIABLES
    layer_lists,          \* the view's layer tabs: <<[name, layers]>>, 1-based;
                          \* layer_lists[1] is the source list (index 0 in pya)
    current_layer_list,   \* 0-based index of the current tab
    current_layer,        \* None or Some([list, pos]): the selected layer
    hide_empty_layers,    \* host configuration value 'hide-empty-layers'
    hide_empty_layers_user_cfg,   \* self._hide_empty_layers_user_cfg
    user_choice,          \* the value the user last chose for 'hide-empty-layers'
    has_layer_list_name,  \* host offers LayoutView.layer_list_name (>= 0.30.4)
    deferred,             \* EventLoop.defer queue, oldest first
    last,                 \* the last trigger_shortcut call: its shortcut's
                          \* actions and how it ended
    view_open,            \* pya.LayoutView.current() is not None
    deferred_raised,      \* a deferred select_layer raised an exception
    layout_present,       \* self.layout is not None
    tech_name,            \* self.tech.name
    file_open_connected,  \* layout_changed is connected to view.on_file_open
    host_menu,            \* the host's own menu entries: <<[path, title, key]>>
    plugin_menu,          \* what the plugin put under edit_menu
    in_conflicting_shortcut_dialog,   \* self._in_conflicting_shortcut_dialog
    last_setup,           \* the last setup() call: what it saw and how it ended
    json_files,           \* PDKInfoFactory.__init__: the sorted files to scan
    scan_pos,             \* how many of json_files the scan loop has done
    scan_status,          \* "running", "done", or "aborted" by an exception
    factory_catalog,      \* the _pdk_infos_by_tech_name the scan is building
    last_read,            \* the last read_json call of the scan and its result
    last_lookup           \* the last PDKInfoFactory.pdk_info call

view_vars == <<layer_lists, current_layer_list, current_layer, hide_empty_layers,
               hide_empty_layers_user_cfg, user_choice, has_layer_list_name, last,
               view_open, deferred_raised>>

menu_vars == <<layout_present, tech_name, file_open_connected, host_menu,
               plugin_menu, in_conflicting_shortcut_dialog, last_setup>>

catalog_vars == <<json_files, scan_pos, scan_status, factory_catalog, last_read,
                  last_lookup>>

vars == <<view_vars, deferred, menu_vars, catalog_vars>>

source_list_idx == 0

\* view.begin_layers(list_idx): the layers of a tab in enumeration order
\* (an index past the last tab enumerates nothing).
begin_layers(lists, list_idx) ==
    IF list_idx + 1 \in 1..Len(lists) THEN lists[list_idx + 1].layers ELSE <<>>

\* ------------------------------------------- trigger_shortcut: classification
\* lname = lp.name or lp.source
lname(lp) == IF lp.name # "" THEN lp.name ELSE lp.source

\* layer_names = {l for g in layer_groups for l in g.layers}
layer_names(layer_descriptor) ==
    UNION {Range(g.layers) :
             g \in Range(layer_groups(layer_descriptor.layer_groups[1]))}

\* Whether apply_function hands the layer to incl_function (TRUE) or to
\* excl_function (FALSE), by descriptor kind.
Included(layer_descriptor, lp) ==
    CASE layer_descriptor.kind = "all" -> TRUE
      [] layer_descriptor.kind = "none" -> FALSE
      [] layer_descriptor.kind = "layers" ->
             lp.name \in Range(layer_descriptor.layers[1])
      [] layer_descriptor.kind = "layer_groups" ->
             lname(lp) \in layer_names(layer_descriptor)

\* `lname is None`: name and source are strings, and `or` on two strings
\* yields one of them, the empty string when both are empty.
lname_is_None_when_empty(l) == l = ""

lname_is_None(l) == FALSE

\* The LAYER_GROUPS loop of apply_function never ends when it meets a layer
\* with `lname is None`: its `continue` skips iter.next().
Hangs(layer_descriptor, src) ==
    /\ layer_descriptor.kind = "layer_groups"
    /\ \E i \in 1..Len(src) : lname_is_None(lname(src[i]))

\* A descriptor without the data its kind needs makes apply_function raise a
\* TypeError: `lp.name in None` at the first layer, `g.name in None` at the
\* first group definition.
Raises(layer_descriptor, src) ==
    \/ /\ layer_descriptor.kind = "layers"
       /\ layer_descriptor.layers = None
       /\ src # <<>>
    \/ /\ layer_descriptor.kind = "layer_groups"
       /\ layer_descriptor.layer_groups = None
       /\ layer_group_definitions # <<>>

\* The six callbacks. acc holds the two accumulators of trigger_shortcut; lp is
\* a reference to a layer of the source list, kept as its position there.
\* hide_incl with the two Hide callbacks swapped.
hide_incl_appends(acc, lp) == [acc EXCEPT !.visible_layers = Append(@, lp)]

hide_incl(acc, lp) == acc

\* hide_excl leaving the excluded layers out.
hide_excl_skips(acc, lp) == acc

hide_excl(acc, lp) == [acc EXCEPT !.visible_layers = Append(@, lp)]

show_incl(acc, lp) == [acc EXCEPT !.visible_layers = Append(@, lp)]

show_excl(acc, lp) == acc

\* select_incl keeping the first layer it was called with.
select_incl_keeps_first(acc, lp) ==
    IF acc.selected_layer = None THEN [acc EXCEPT !.selected_layer = Some(lp)]
    ELSE acc

select_incl(acc, lp) == [acc EXCEPT !.selected_layer = Some(lp)]

select_excl(acc, lp) == acc

incl_function(kind, acc, lp) ==
    CASE kind = "hide_layers" -> hide_incl(acc, lp)
      [] kind = "show_layers" -> show_incl(acc, lp)
      [] kind = "select_layers" -> select_incl(acc, lp)

excl_function(kind, acc, lp) ==
    CASE kind = "hide_layers" -> hide_excl(acc, lp)
      [] kind = "show_layers" -> show_excl(acc, lp)
      [] kind = "select_layers" -> select_excl(acc, lp)

\* apply_function: one pass over the source list from position i on, calling
\* incl_function or excl_function on every layer.
RECURSIVE apply_function(_, _, _, _, _)
apply_function(kind, layer_descriptor, src, i, acc) ==
    IF i > Len(src) THEN acc
    ELSE apply_function(kind, layer_descriptor, src, i + 1,
             IF Included(layer_descriptor, src[i])
             THEN incl_function(kind, acc, i)
             ELSE excl_function(kind, acc, i))

ResetKinds == {"reset_and_show_all_layers", "reset_and_hide_all_layers"}

\* The action loop of trigger_shortcut: how it ends ("done", the kind of the
\* reset action that returned early, "error", or "hang" when a loop never
\* ends) and the accumulators then.
RECURSIVE run_actions(_, _, _)
run_actions(actions, src, acc) ==
    IF actions = <<>>
    THEN [status |-> "done", visible_layers |-> acc.visible_layers,
          selected_layer |-> acc.selected_layer]
    ELSE LET action == Head(actions) IN
         IF action.kind \in ResetKinds
         THEN [status |-> action.kind, visible_layers |-> acc.visible_layers,
               selected_layer |-> acc.selected_layer]
         ELSE IF action.kind \notin ActionKind \/ Raises(action.layers, src)
         THEN [status |-> "error", visible_layers |-> acc.visible_layers,
               selected_layer |-> acc.selected_layer]
         ELSE IF Hangs(action.layers, src)
         THEN [status |-> "hang", visible_layers |-> acc.visible_layers,
               selected_layer |-> acc.selected_layer]
         ELSE run_actions(Tail(actions), src,
                  apply_function(action.kind, action.layers, src, 1, acc))

\* ---------------------------------------------------------- layer tab helpers
\* layer_list_index_for_tab_name: the 0-based index of the first tab with that
\* name, -1 when there is none or the host cannot tell tab names.
layer_list_index_for_tab_name(lists, name, has_name_api) ==
    IF has_name_api /\ \E i \in 1..Len(lists) : lists[i].name = name
    THEN (CHOOSE i \in 1..Len(lists) :
              /\ lists[i].name = name
              /\ \A j \in 1..(i - 1) : lists[j].name # name) - 1
    ELSE -1

\* The source list after `l.visible = True` on every referenced layer.
MarkVisible(src, visible_layers) ==
    [i \in 1..Len(src) |->
        IF i \in Range(visible_layers) THEN [src[i] EXCEPT !.visible = TRUE]
        ELSE src[i]]

\* The copies view.insert_layer puts into the tab, in order.
InsertedLayers(src, visible_layers) ==
    [k \in 1..Len(visible_layers) |->
        [src[visible_layers[k]] EXCEPT !.visible = TRUE]]

\* update_layer_list without view.clear_layers: the new layers come behind
\* the ones the tab held.
update_layer_list_keeps_old(lists, name, visible_layers, has_name_api) ==
    LET found == layer_list_index_for_tab_name(lists, name, has_name_api)
        list_idx == IF found = -1 THEN Len(lists) ELSE found
        marked == [lists EXCEPT ![1].layers = MarkVisible(@, visible_layers)]
        inserted == InsertedLayers(lists[1].layers, visible_layers)
    IN [list_idx |-> list_idx,
        created |-> (found = -1),
        lists |-> IF found = -1
                  THEN Append(marked, [name |-> name, layers |-> inserted])
                  ELSE [marked EXCEPT ![list_idx + 1] =
                           [name |-> name, layers |-> @.layers \o inserted]]]

\* update_layer_list: the tabs after the named tab was created or cleared,
\* renamed and refilled, and the index of that tab.
update_layer_list(lists, name, visible_layers, has_name_api) ==
    LET found == layer_list_index_for_tab_name(lists, name, has_name_api)
        list_idx == IF found = -1 THEN Len(lists) ELSE found
        marked == [lists EXCEPT ![1].layers = MarkVisible(@, visible_layers)]
        tab == [name |-> name,
                layers |-> InsertedLayers(lists[1].layers, visible_layers)]
    IN [list_idx |-> list_idx,
        created |-> (found = -1),
        lists |-> IF found = -1 THEN Append(marked, tab)
                  ELSE [marked EXCEPT ![list_idx + 1] = tab]]

\* view.delete_layer_list(idx) on the sequence of tabs.
delete_layer_list(lists, idx) ==
    [i \in 1..(Len(lists) - 1) |-> IF i < idx + 1 THEN lists[i] ELSE lists[i + 1]]

\* remove_layer_list: the tabs without the first tab of that name, if found.
remove_layer_list(lists, name, has_name_api) ==
    LET list_idx == layer_list_index_for_tab_name(lists, name, has_name_api)
    IN IF list_idx # -1 THEN delete_layer_list(lists, list_idx) ELSE lists

\* `lp.visible = v` for every layer of view.each_layer().
SetAllVisible(lists, v) ==
    [lists EXCEPT ![1].layers =
        [i \in 1..Len(@) |-> [@[i] EXCEPT !.visible = v]]]

\* The selection after a tab was cleared (cleared = TRUE) or deleted.
DropSelection(sel, idx, cleared) ==
    IF sel = None THEN None
    ELSE IF sel[1].list = idx THEN None
    ELSE IF ~cleared /\ sel[1].list > idx
         THEN Some([sel[1] EXCEPT !.list = @ - 1])
    ELSE sel

\* ------------------------------------------------------ shortcuts to trigger
DAll == LayerDescriptor("all", None, None)

DNone == LayerDescriptor("none", None, None)

DLayers(ls) == LayerDescriptor("layers", Some(ls), None)

DGroups(gs) == LayerDescriptor("layer_groups", None, Some(gs))

Hide(d) == Action("hide_layers", d)

Show(d) == Action("show_layers", d)

Select(d) == Action("select_layers", d)

ResetShowAll == Action("reset_and_show_all_layers", DAll)

ResetHideAll == Action("reset_and_hide_all_layers", DAll)

\* build_example_pdk_info.create_group_shortcut: the actions of a group
\* shortcut.
create_group_shortcut(visible_layer_groups, selected_layer_groups, hide_others) ==
    (IF hide_others THEN <<Hide(DAll)>> ELSE <<>>)
    \o << Show(DGroups(visible_layer_groups)),
          Select(DGroups(selected_layer_groups)) >>

UnknownGroup == "TopMetal9.Visible"   \* a group name without a definition

VisibleGroupLists ==
    { <<"Metal1.Visible">>, <<"Metal1.Visible", "Metal2.Visible">>,
      <<"Metal1.Visible", UnknownGroup>> }

SelectedGroupLists == { <<"Metal1.Selected">>, <<"Metal1.Visible">> }

GroupShortcuts ==
    {create_group_shortcut(v, s, h) :
        v \in VisibleGroupLists, s \in SelectedGroupLists, h \in BOOLEAN}

Descriptors ==
    {DAll, DNone, DLayers(<<"Metal1.drawing", "Via1.drawing">>),
     DGroups(<<"Metal1.Visible">>)}

\* Lists that name the same two groups: in either order, and with a name
\* repeated.
ReorderedGroupLists ==
    { <<"Metal1.Visible", "Metal2.Visible">>,
      <<"Metal2.Visible", "Metal1.Visible">>,
      <<"Metal2.Visible", "Metal1.Visible", "Metal2.Visible">> }

\* The action lists of the shortcuts a configuration may hold: the group
\* shortcuts, single actions, a Show followed by a Hide, two Selects, resets
\* before and behind other actions, a descriptor without its data, an action
\* of a kind the executor does not know, and one Show for reordered groups.
ShortcutActions ==
    GroupShortcuts
    \cup {<<Hide(d)>> : d \in Descriptors}
    \cup {<<Select(d)>> : d \in {DAll, DGroups(<<"Metal1.Visible">>)}}
    \cup {<<Show(DAll), Hide(d)>> : d \in Descriptors}
    \cup {<<Show(DGroups(<<"Metal1.Visible">>)),
            Hide(DLayers(<<"Metal1.drawing", "Via1.drawing">>))>>}
    \cup {<<Show(DAll), Select(DGroups(<<"Metal1.Selected">>)),
            Select(DGroups(<<"Metal2.Visible">>))>>}
    \cup {<<r>> : r \in {ResetShowAll, ResetHideAll}}
    \cup {<<Show(DAll), Select(DAll), r, Show(DAll), Select(DAll)>> :
              r \in {ResetShowAll, ResetHideAll}}
    \cup {<<Show(DAll), Show(LayerDescriptor("layers", None, None))>>}
    \cup {<<Show(DAll), Action("toggle_layers", DAll)>>}
    \cup {<<Show(DGroups(g))>> : g \in ReorderedGroupLists}

\* ------------------------------------------------- configuration catalog
MenuItem(k, sc) == [kind |-> k, shortcut |-> sc]

separator == MenuItem("separator", None)

for_shortcut(sc) == MenuItem("shortcut", Some(sc))

\* A cut of build_example_pdk_info: the two reset shortcuts, a separator and
\* the Metal1 focus shortcut.
menu_items ==
    << for_shortcut(Shortcut("Show default layers", "0", <<ResetShowAll>>)),
       for_shortcut(Shortcut("Hide default layers", ",", <<ResetHideAll>>)),
       separator,
       for_shortcut(Shortcut("Focus on Metal1 layers", "1",
           create_group_shortcut(<<"Metal1.Visible">>, <<"Metal1.Selected">>,
                                 TRUE))) >>

\* The PDKInfo dataclass: its fields are exactly these three.
PDKInfo(t, gs, ms) ==
    [tech_name |-> t, layer_group_definitions |-> gs, menu_items |-> ms]

\* The menu items of a configuration in which two shortcuts share the key '0'.
menu_items_same_key ==
    << for_shortcut(Shortcut("Show default layers", "0", <<ResetShowAll>>)),
       for_shortcut(Shortcut("Hide default layers", "0", <<ResetHideAll>>)) >>

\* PDKInfoFactory._pdk_infos_by_tech_name after the scan of the search path.
pdk_infos_by_tech_name ==
    [t \in {"sg13g2", "sky130A"} |->
        PDKInfo(t, layer_group_definitions,
                IF t = "sg13g2" THEN menu_items ELSE menu_items_same_key)]

\* PDKInfoFactory.pdk_info: dict.get(tech_name, None)
pdk_info(t) ==
    IF t \in DOMAIN pdk_infos_by_tech_name THEN Some(pdk_infos_by_tech_name[t])
    ELSE None

\* ------------------------------------------------ configuration file format
\* JSON values, as json.dump writes and json.load reads them.
JNull == [t |-> "null"]

JString(s) == [t |-> "string", v |-> s]

JArray(xs) == [t |-> "array", v |-> xs]

JObject(o) == [t |-> "object", v |-> o]

\* The content of a file that is not JSON text: json.load raises on it.
NotJson == [t |-> "invalid"]

dump_str_list(ls) == JArray([i \in 1..Len(ls) |-> JString(ls[i])])

\* An Optional field written as an empty array when it is None.
dump_Optional_str_list_as_empty(x) ==
    IF x = None THEN JArray(<<>>) ELSE dump_str_list(x[1])

\* asdict + json.dump on an Optional[List[str]] field: None becomes null.
dump_Optional_str_list(x) ==
    IF x = None THEN JNull ELSE dump_str_list(x[1])

\* asdict + json.dump, class by class: a dataclass becomes an object with one
\* member per field, a list an array, a StrEnum member the string it is.
dump_NamedLayerGroup(g) ==
    JObject([name |-> JString(g.name), layers |-> dump_str_list(g.layers)])

dump_LayerDescriptor(d) ==
    JObject([kind |-> JString(d.kind),
             layers |-> dump_Optional_str_list(d.layers),
             layer_groups |-> dump_Optional_str_list(d.layer_groups)])

dump_Action(a) ==
    JObject([kind |-> JString(a.kind), layers |-> dump_LayerDescriptor(a.layers)])

dump_Shortcut(sc) ==
    JObject([title |-> JString(sc.title), key |-> JString(sc.key),
             actions |-> JArray([i \in 1..Len(sc.actions) |->
                                    dump_Action(sc.actions[i])])])

dump_MenuItem(m) ==
    JObject([kind |-> JString(m.kind),
             shortcut |-> IF m.shortcut = None THEN JNull
                          ELSE dump_Shortcut(m.shortcut[1])])

\* PDKInfo.write_json: the content of the file written.
write_json(pi) ==
    JObject([tech_name |-> JString(pi.tech_name),
             layer_group_definitions |->
                 JArray([i \in 1..Len(pi.layer_group_definitions) |->
                            dump_NamedLayerGroup(pi.layer_group_definitions[i])]),
             menu_items |->
                 JArray([i \in 1..Len(pi.menu_items) |->
                            dump_MenuItem(pi.menu_items[i])])])

\* dataclass_from_dict, class by class: whether the JSON value has the shape
\* of the class (an object with every field of the class, each of its type;
\* members the class does not know are ignored), and the instance it gives.
is_string(j) == j.t = "string"

is_str_list(j) == j.t = "array" /\ \A i \in 1..Len(j.v) : is_string(j.v[i])

is_object(j, fields) == j.t = "object" /\ fields \subseteq DOMAIN j.v

is_array(j) == j.t = "array"

load_str_list(j) == [i \in 1..Len(j.v) |-> j.v[i].v]

load_Optional_str_list(j) == IF j.t = "null" THEN None ELSE Some(load_str_list(j))

is_NamedLayerGroup(j) ==
    /\ is_object(j, {"name", "layers"})
    /\ is_string(j.v.name)
    /\ is_str_list(j.v.layers)

load_NamedLayerGroup(j) == NamedLayerGroup(j.v.name.v, load_str_list(j.v.layers))

is_LayerDescriptor(j) ==
    /\ is_object(j, {"kind"})
    /\ is_string(j.v.kind) /\ j.v.kind.v \in LayerDescriptorKind
    /\ \A f \in {"layers", "layer_groups"} \cap DOMAIN j.v :
           j.v[f].t = "null" \/ is_str_list(j.v[f])

load_LayerDescriptor(j) ==
    LayerDescriptor(j.v.kind.v,
        IF "layers" \in DOMAIN j.v
        THEN load_Optional_str_list(j.v.layers) ELSE None,
        IF "layer_groups" \in DOMAIN j.v
        THEN load_Optional_str_list(j.v.layer_groups) ELSE None)

is_Action(j) ==
    /\ is_object(j, {"kind", "layers"})
    /\ is_string(j.v.kind) /\ j.v.kind.v \in ActionKind
    /\ is_LayerDescriptor(j.v.layers)

load_Action(j) == Action(j.v.kind.v, load_LayerDescriptor(j.v.layers))

is_Shortcut(j) ==
    /\ is_object(j, {"title", "key", "actions"})
    /\ is_string(j.v.title)
    /\ is_string(j.v.key)
    /\ is_array(j.v.actions)
    /\ \A i \in 1..Len(j.v.actions.v) : is_Action(j.v.actions.v[i])

load_Shortcut(j) ==
    Shortcut(j.v.title.v, j.v.key.v,
             [i \in 1..Len(j.v.actions.v) |-> load_Action(j.v.actions.v[i])])

MenuItemKind == {"shortcut", "separator"}

is_MenuItem(j) ==
    /\ is_object(j, {"kind"})
    /\ is_string(j.v.kind) /\ j.v.kind.v \in MenuItemKind
    /\ "shortcut" \in DOMAIN j.v =>
           (j.v.shortcut.t = "null" \/ is_Shortcut(j.v.shortcut))

load_MenuItem(j) ==
    MenuItem(j.v.kind.v,
             IF "shortcut" \in DOMAIN j.v /\ j.v.shortcut.t # "null"
             THEN Some(load_Shortcut(j.v.shortcut)) ELSE None)

is_PDKInfo(j) ==
    /\ is_object(j, {"tech_name", "layer_group_definitions", "menu_items"})
    /\ is_string(j.v.tech_name)
    /\ is_array(j.v.layer_group_definitions)
    /\ \A i \in 1..Len(j.v.layer_group_definitions.v) :
           is_NamedLayerGroup(j.v.layer_group_definitions.v[i])
    /\ is_array(j.v.menu_items)
    /\ \A i \in 1..Len(j.v.menu_items.v) : is_MenuItem(j.v.menu_items.v[i])

dataclass_from_dict(j) ==
    PDKInfo(j.v.tech_name.v,
            [i \in 1..Len(j.v.layer_group_definitions.v) |->
                load_NamedLayerGroup(j.v.layer_group_definitions.v[i])],
            [i \in 1..Len(j.v.menu_items.v) |->
                load_MenuItem(j.v.menu_items.v[i])])

\* PDKInfo.read_json: None when json.load or dataclass_from_dict raises, else
\* the PDKInfo read.
read_json(text) ==
    IF text.t = "invalid" THEN None
    ELSE IF ~is_PDKInfo(text) THEN None
    ELSE Some(dataclass_from_dict(text))

\* ------------------------------------------------------- PDKInfoFactory scan
\* The configurations the files of a search path may hold: the example
\* configuration, a second one for the same technology, and one for another
\* technology whose shortcut uses the remaining descriptor kinds.
ExamplePDKInfos ==
    { PDKInfo("sg13g2", layer_group_definitions, menu_items),
      PDKInfo("sg13g2", <<>>, menu_items_same_key),
      PDKInfo("sky130A", <<NamedLayerGroup("Metal1.Selected", <<"Metal1.drawing">>)>>,
              <<for_shortcut(Shortcut("Pick Metal1", "P",
                    <<Select(DLayers(<<"Metal1.drawing">>)), Hide(DNone)>>))>>) }

\* What a *.json file of the search path may contain: no JSON at all, JSON
\* that lacks fields of PDKInfo, or what write_json wrote.
FileTexts ==
    {NotJson, JObject([tech_name |-> JString("sg13g2")])}
    \cup {write_json(pi) : pi \in ExamplePDKInfos}

\* The files the globs of the search path find: a path (its rank in path
\* order) maps to the file's content.
Paths == 1..MaxFiles

Directories == UNION {[ps -> FileTexts] : ps \in SUBSET Paths}

\* sorted({f for p in search_path for f in p.glob('*.json')})
sorted(files) ==
    [k \in 1..Cardinality(DOMAIN files) |->
        LET p == CHOOSE p \in DOMAIN files :
                     Cardinality({q \in DOMAIN files : q < p}) = k - 1
        IN [path |-> p, text |-> files[p]]]

\* `self._pdk_infos_by_tech_name[pdk_info.tech_name] = pdk_info` keeping the
\* entry the dict already has.
store_keeps_first(catalog, pi) ==
    IF pi.tech_name \in DOMAIN catalog THEN catalog
    ELSE (pi.tech_name :> pi) @@ catalog

\* self._pdk_infos_by_tech_name[pdk_info.tech_name] = pdk_info
store(catalog, pi) == (pi.tech_name :> pi) @@ catalog

\* The body of the scan loop without its try/except: the exception leaves
\* __init__.
scan_file_without_except(catalog, f) ==
    LET r == read_json(f.text) IN
    IF r = None
    THEN [catalog |-> catalog, pdk_info |-> None, status |-> "aborted"]
    ELSE [catalog |-> store(catalog, r[1]), pdk_info |-> r, status |-> "stored"]

\* The body of the scan loop for file f: read it and store what was read, or
\* print the failure and go on.
scan_file(catalog, f) ==
    LET r == read_json(f.text) IN
    IF r = None
    THEN [catalog |-> catalog, pdk_info |-> None, status |-> "skipped"]
    ELSE [catalog |-> store(catalog, r[1]), pdk_info |-> r, status |-> "stored"]

\* PDKInfoFactory.pdk_info: dict.get(tech_name, None) on the scanned catalog.
factory_pdk_info(catalog, t) ==
    IF t \in DOMAIN catalog THEN Some(catalog[t]) ELSE None

NoRead == [path |-> 0, text |-> JNull, pdk_info |-> None, status |-> "none"]

NoLookup == [tech_name |-> "", pdk_info |-> None]

\* PDKInfoFactory.__init__ before the scan loop, for one of the directories.
InitFactory(directories) ==
    /\ \E files \in directories : json_files = sorted(files)
    /\ scan_pos = 0
    /\ scan_status = IF json_files = <<>> THEN "done" ELSE "running"
    /\ factory_catalog = <<>>
    /\ last_read = NoRead
    /\ last_lookup = NoLookup

\* The factory after the scan of the packaged configurations: json_files, a
\* local of __init__, is gone, the catalog holds what the scan left.
InitScanned ==
    /\ json_files = <<>>
    /\ scan_pos = 0
    /\ scan_status = "done"
    /\ factory_catalog = pdk_infos_by_tech_name
    /\ last_read = NoRead
    /\ last_lookup = NoLookup

Technologies == {"sg13g2", "sky130A", "gf180mcu"}

\* Reading obj.attr raises AttributeError unless the object has the attribute.
HasAttr(obj, attr) == attr \in DOMAIN obj

\* ------------------------------------------------------------------- menus
\* A menu path is the sequence of its dot-separated components.
MenuEntry(p, t, k) == [path |-> p, title |-> t, key |-> k]

layer_navigation_group == <<"edit_menu", "layer_navigation_group">>

ItemNames == <<"shortcut_0", "shortcut_1", "shortcut_2", "shortcut_3">>

\* path.startswith('edit_menu.layer_navigation_group.')
IsPluginPath(path) ==
    /\ Len(path) > Len(layer_navigation_group)
    /\ SubSeq(path, 1, Len(layer_navigation_group)) = layer_navigation_group

NoKey == "none"   \* the host's no-binding value

ReboundKeys == {"0", ",", "", NoKey}

\* The host's own bound commands (the ones of the conflict example).
HostMenu(k) ==
    << MenuEntry(<<"file_menu", "save">>, "Save", "Ctrl+S"),
       MenuEntry(<<"other", "x">>, "X", k) >>

is_key_bound(key) == key # "" /\ key # NoKey

\* menu.clear_menu("edit_menu.layer_navigation_group"): the children of the
\* group go, the group and the separator stay.
clear_menu(m) == [m EXCEPT !.items = <<>>]

\* all_actions_with_keybindings: every menu entry, the plugin's own included,
\* whose effective shortcut is bound, in menu order.
all_actions_with_keybindings(hm, pm) ==
    SelectSeq(hm \o pm.items, LAMBDA e : is_key_bound(e.key))

\* The conflicts list of check_for_ambiguous_shortcuts for the configured
\* shortcuts `shortcuts`.
conflicts_of(shortcuts, hm, pm) ==
    LET configured_shortcut_keys == {shortcuts[i].key : i \in 1..Len(shortcuts)}
    IN SelectSeq(all_actions_with_keybindings(hm, pm),
                 LAMBDA e : /\ ~IsPluginPath(e.path)
                            /\ e.key # ""
                            /\ e.key \in configured_shortcut_keys)

\* `s.key in configured_shortcuts`: a str compared with the (title, key)
\* tuples of the list; in Python a str never equals a tuple.
str_eq_tuple(key, entry) == FALSE

\* The keys check_for_ambiguous_shortcuts prints a 'defined multiple times'
\* error for, in order.
duplicate_key_errors(shortcuts) ==
    LET configured_shortcuts ==
            [i \in 1..Len(shortcuts) |-> <<shortcuts[i].title, shortcuts[i].key>>]
        flagged == SelectSeq([i \in 1..Len(shortcuts) |-> i],
                       LAMBDA i : \E j \in 1..(i - 1) :
                           str_eq_tuple(shortcuts[i].key, configured_shortcuts[j]))
    IN [k \in 1..Len(flagged) |-> shortcuts[flagged[k]].key]

\* mw.set_key_bindings({path: 'none'}) for every conflict.
remove_conflicting(hm, conflicts) ==
    [i \in 1..Len(hm) |->
        IF hm[i].path \in {conflicts[j].path : j \in 1..Len(conflicts)}
        THEN [hm[i] EXCEPT !.key = NoKey] ELSE hm[i]]

\* check_for_ambiguous_shortcuts without its `pdk_info is None` return: the
\* attribute access on None raises.
check_for_ambiguous_shortcuts_without_none_check(t, hm, pm, reply) ==
    [status |-> "raise", conflicts |-> <<>>, prompted |-> FALSE,
     duplicate_keys |-> <<>>, host_menu |-> hm]

\* check_for_ambiguous_shortcuts: how it ends, the conflicts it put into the
\* prompt, whether it prompted, and the host menu afterwards. `reply` is the
\* user's answer to the prompt.
check_for_ambiguous_shortcuts(t, hm, pm, reply) ==
    LET pi == pdk_info(t) IN
    IF pi = None
    THEN [status |-> "no_pdk", conflicts |-> <<>>, prompted |-> FALSE,
          duplicate_keys |-> <<>>, host_menu |-> hm]
    ELSE IF ~HasAttr(pi[1], "shortcuts")
    THEN [status |-> "raise", conflicts |-> <<>>, prompted |-> FALSE,
          duplicate_keys |-> <<>>, host_menu |-> hm]
    ELSE LET conflicts == conflicts_of(pi[1].shortcuts, hm, pm) IN
         [status |-> "ok", conflicts |-> conflicts,
          prompted |-> (conflicts # <<>>),
          duplicate_keys |-> duplicate_key_errors(pi[1].shortcuts),
          host_menu |-> IF conflicts # <<>> /\ reply = "Yes"
                        THEN remove_conflicting(hm, conflicts) ELSE hm]

\* set_menu_for_current_tech: the plugin's menu afterwards and whether the
\* method raised.
set_menu_for_current_tech(t, pm) ==
    LET pi == pdk_info(t) IN
    IF pi = None THEN [plugin_menu |-> pm, raised |-> FALSE]
    ELSE LET inserted == [pm EXCEPT !.separator = TRUE, !.group = TRUE] IN
         IF ~HasAttr(pi[1], "shortcuts")
         THEN [plugin_menu |-> inserted, raised |-> TRUE]
         ELSE [plugin_menu |->
                  [inserted EXCEPT !.items =
                      [i \in 1..Len(pi[1].shortcuts) |->
                          MenuEntry(layer_navigation_group \o <<ItemNames[i]>>,
                                    pi[1].shortcuts[i].title,
                                    pi[1].shortcuts[i].key)]],
               raised |-> FALSE]

\* reset_menu: clear_menu, then set_menu_for_current_tech.
reset_menu(t, pm) == set_menu_for_current_tech(t, clear_menu(pm))

\* setup(): the host menu and the plugin's menu afterwards, and a record of
\* the call (what it saw, how it ended, the conflicts it reported).
setup(layout, t, hm, pm, in_dialog, reply) ==
    LET before == [tech_name |-> t, layout_present |-> layout,
                   host_menu |-> hm, reply |-> reply]
        same == [host_menu |-> hm, plugin_menu |-> pm]
    IN IF in_dialog
       THEN same @@ [record |-> before @@ [status |-> "early_exit",
                          conflicts |-> <<>>, prompted |-> FALSE,
                          duplicate_keys |-> <<>>]]
       ELSE IF ~layout
       THEN [host_menu |-> hm, plugin_menu |-> clear_menu(pm),
             record |-> before @@ [status |-> "cleared", conflicts |-> <<>>,
                                   prompted |-> FALSE,
                                   duplicate_keys |-> <<>>]]
       ELSE LET c == check_for_ambiguous_shortcuts(t, hm, pm, reply) IN
            IF c.status = "raise"
            THEN same @@ [record |-> before @@ [status |-> "exception",
                              conflicts |-> <<>>, prompted |-> FALSE,
                              duplicate_keys |-> <<>>]]
            ELSE LET m == reset_menu(t, pm) IN
                 [host_menu |-> c.host_menu, plugin_menu |-> m.plugin_menu,
                  record |-> before @@
                      [status |-> IF m.raised THEN "exception"
                                  ELSE IF c.status = "no_pdk" THEN "no_pdk"
                                  ELSE "installed",
                       conflicts |-> c.conflicts, prompted |-> c.prompted,
                       duplicate_keys |-> c.duplicate_keys]]

Replies == {"Yes", "No"}

\* A handler that ends in setup(), with the layout and technology given.
CallSetup(layout, t, reply) ==
    LET r == setup(layout, t, host_menu, plugin_menu,
                   in_conflicting_shortcut_dialog, reply)
    IN /\ host_menu' = r.host_menu
       /\ plugin_menu' = r.plugin_menu
       /\ last_setup' = r.record
       /\ UNCHANGED in_conflicting_shortcut_dialog

\* The module-level on_current_view_changed / on_view_created callbacks,
\* menu_activated('technology_selector:apply_technology') and
\* configure('initial-technology', ...): each defers an instance method.
Handlers == {"on_current_view_changed", "on_view_created", "technology_applied"}

defer(op) ==
    /\ Len(deferred) < MaxDeferred
    /\ deferred' = Append(deferred, [op |-> op, li |-> 0, sl |-> 0])

on_current_view_changed ==
    /\ defer("on_current_view_changed")
    /\ UNCHANGED <<catalog_vars, view_vars, menu_vars>>

on_view_created ==
    /\ defer("on_view_created")
    /\ UNCHANGED <<catalog_vars, view_vars, menu_vars>>

menu_activated ==
    /\ defer("technology_applied")
    /\ UNCHANGED <<catalog_vars, view_vars, menu_vars>>

configure_initial_technology ==
    /\ defer("technology_applied")
    /\ UNCHANGED <<catalog_vars, view_vars, menu_vars>>

\* The event loop runs a deferred instance method:
\*  on_current_view_changed: connect layout_changed to on_file_open when there
\*    is no layout yet, else layout_changed() -> setup();
\*  on_view_created: setup() unless the plugin's menu group exists;
\*  technology_applied: setup().
RunHandler ==
    /\ deferred # <<>>
    /\ Head(deferred).op \in Handlers
    /\ deferred' = Tail(deferred)
    /\ LET op == Head(deferred).op IN
       \E reply \in Replies :
          IF op = "on_current_view_changed" /\ ~layout_present
          THEN /\ file_open_connected' = TRUE
               /\ UNCHANGED <<host_menu, plugin_menu, last_setup,
                              in_conflicting_shortcut_dialog>>
          ELSE IF op = "on_view_created" /\ plugin_menu.group
          THEN UNCHANGED <<file_open_connected, host_menu, plugin_menu,
                           last_setup, in_conflicting_shortcut_dialog>>
          ELSE /\ CallSetup(layout_present, tech_name, reply)
               /\ UNCHANGED file_open_connected
    /\ UNCHANGED <<catalog_vars, view_vars, layout_present, tech_name>>

\* The host opens a file into the view: on_file_open calls layout_changed()
\* if it was connected.
FileOpen ==
    /\ ~layout_present
    /\ layout_present' = TRUE
    /\ \E reply \in Replies :
          IF file_open_connected
          THEN CallSetup(TRUE, tech_name, reply)
          ELSE UNCHANGED <<host_menu, plugin_menu, last_setup,
                           in_conflicting_shortcut_dialog>>
    /\ UNCHANGED <<catalog_vars, view_vars, deferred, tech_name, file_open_connected>>

\* The host applies another technology to the layout.
ChangeTechnology ==
    /\ \E t \in Technologies \ {tech_name} : tech_name' = t
    /\ UNCHANGED <<catalog_vars, view_vars, deferred, layout_present, file_open_connected,
                   host_menu, plugin_menu, in_conflicting_shortcut_dialog,
                   last_setup>>

\* The user rebinds the key of the host's second menu entry.
UserBindsKey ==
    /\ \E k \in ReboundKeys \ {host_menu[2].key} :
           host_menu' = [host_menu EXCEPT ![2].key = k]
    /\ UNCHANGED <<catalog_vars, view_vars, deferred, layout_present, tech_name,
                   file_open_connected, plugin_menu,
                   in_conflicting_shortcut_dialog, last_setup>>

\* ------------------------------------------------------------ the executor
\* The host's text for a boolean configuration value.
config_value(b) == IF b THEN "true" ELSE "false"

\* configure('hide-empty-layers', value) taking every change for the user's,
\* the plugin's own writes included.
configure_hide_empty_layers_unguarded(user_cfg, value, ignore) ==
    value = "true"

\* configure('hide-empty-layers', value): _hide_empty_layers_user_cfg
\* afterwards; `ignore` is _ignore_hide_empty_layers_change.
configure_hide_empty_layers(user_cfg, value, ignore) ==
    IF ~ignore THEN value = "true" ELSE user_cfg

\* set_config_hide_empty_layers(hide): the host setting and the recorded
\* preference afterwards. The host calls configure back from set_config,
\* while _ignore_hide_empty_layers_change is set.
set_config_hide_empty_layers(user_cfg, hide) ==
    [hide_empty_layers |-> (config_value(hide) = "true"),
     user_cfg |-> configure_hide_empty_layers(user_cfg, config_value(hide), TRUE)]

\* The record of `last` while no shortcut was triggered in the view.
NoTrigger ==
    [actions |-> <<>>, status |-> "none", visible_layers |-> <<>>,
     selected_layer |-> None, list_idx |-> -1]

\* The view after construction, with one of the snapshots as source list (a
\* short one on a host without layer_list_name).
InitView(snapshots) ==
    /\ \E snapshot \in snapshots :
           layer_lists = <<[name |-> "", layers |-> snapshot]>>
    /\ current_layer_list = 0
    /\ current_layer = None
    /\ user_choice \in BOOLEAN
    /\ hide_empty_layers = user_choice
    /\ hide_empty_layers_user_cfg = (config_value(hide_empty_layers) = "true")
    /\ has_layer_list_name \in BOOLEAN
    /\ ~has_layer_list_name => layer_lists[1].layers \in LegacySnapshots
    /\ last = NoTrigger
    /\ view_open = TRUE
    /\ deferred_raised = FALSE

\* The plugin after __init__: no menu yet, no dialog.
InitMenu(layouts, techs, keys) ==
    /\ layout_present \in layouts
    /\ tech_name \in techs
    /\ file_open_connected = FALSE
    /\ \E k \in keys : host_menu = HostMenu(k)
    /\ plugin_menu = [separator |-> FALSE, group |-> FALSE, items |-> <<>>]
    /\ in_conflicting_shortcut_dialog = FALSE
    /\ last_setup = [tech_name |-> "", layout_present |-> FALSE,
                     host_menu |-> <<>>, reply |-> "", status |-> "none",
                     conflicts |-> <<>>, prompted |-> FALSE,
                     duplicate_keys |-> <<>>]

Init ==
    /\ InitView(Snapshots)
    /\ InitMenu({TRUE}, {"sg13g2"}, {"0"})
    /\ deferred = <<>>
    /\ InitScanned

\* trigger_shortcut, reset branch: back to tab 0, drop the LayNav tab, set
\* every layer's visibility, restore the user's hide-empty-layers choice.
TriggerReset(actions, r) ==
    LET found == layer_list_index_for_tab_name(layer_lists, "LayNav",
                                               has_layer_list_name)
        removed == remove_layer_list(layer_lists, "LayNav", has_layer_list_name)
    IN /\ view_open
       /\ r.status \in ResetKinds
       /\ current_layer_list' = 0
       /\ layer_lists' =
              SetAllVisible(removed, r.status = "reset_and_show_all_layers")
       /\ current_layer' = IF found = -1 THEN current_layer
                           ELSE DropSelection(current_layer, found, FALSE)
       /\ LET c == set_config_hide_empty_layers(hide_empty_layers_user_cfg, TRUE)
          IN IF hide_empty_layers_user_cfg
             THEN /\ hide_empty_layers' = c.hide_empty_layers
                  /\ hide_empty_layers_user_cfg' = c.user_cfg
             ELSE UNCHANGED <<hide_empty_layers, hide_empty_layers_user_cfg>>
       /\ last' = [actions |-> actions, status |-> r.status,
                   visible_layers |-> r.visible_layers,
                   selected_layer |-> r.selected_layer, list_idx |-> -1]
       /\ UNCHANGED <<user_choice, has_layer_list_name, deferred,
                      view_open, deferred_raised, menu_vars,
                   catalog_vars>>

\* trigger_shortcut, after the action loop: set_config_hide_empty_layers(False)
\* and update_layer_list('LayNav', visible_layers, selected_layer).
TriggerInstall(actions, r) ==
    LET u == update_layer_list(layer_lists, "LayNav", r.visible_layers,
                               has_layer_list_name)
        c == set_config_hide_empty_layers(hide_empty_layers_user_cfg, FALSE)
    IN /\ view_open
       /\ r.status = "done"
       /\ u.created => Len(layer_lists) < MaxLayerLists
       /\ r.selected_layer # None => Len(deferred) < MaxDeferred
       /\ hide_empty_layers' = c.hide_empty_layers
       /\ hide_empty_layers_user_cfg' = c.user_cfg
       /\ layer_lists' = u.lists
       /\ current_layer_list' = u.list_idx
       /\ current_layer' = IF u.created THEN current_layer
                           ELSE DropSelection(current_layer, u.list_idx, TRUE)
       /\ deferred' = IF r.selected_layer = None THEN deferred
                      ELSE Append(deferred, [op |-> "select_layer",
                                             li |-> u.list_idx,
                                             sl |-> r.selected_layer[1]])
       /\ last' = [actions |-> actions, status |-> r.status,
                   visible_layers |-> r.visible_layers,
                   selected_layer |-> r.selected_layer, list_idx |-> u.list_idx]
       /\ UNCHANGED <<user_choice, has_layer_list_name, view_open,
                      deferred_raised, menu_vars,
                   catalog_vars>>

\* TriggerError with set_config_hide_empty_layers(False) called ahead of the
\* action loop.
TriggerError_config_first(actions, r) ==
    /\ view_open
    /\ r.status \in {"error", "hang"}
    /\ hide_empty_layers' = FALSE
    /\ last' = [actions |-> actions, status |-> r.status,
                visible_layers |-> r.visible_layers,
                selected_layer |-> r.selected_layer, list_idx |-> -1]
    /\ UNCHANGED <<layer_lists, current_layer_list, current_layer,
                   hide_empty_layers_user_cfg, user_choice,
                   has_layer_list_name, deferred,
                   view_open, deferred_raised, menu_vars,
                   catalog_vars>>

\* trigger_shortcut, an action raised or never returned: the handler is left
\* (or stuck) before anything was written to the view.
TriggerError(actions, r) ==
    /\ view_open
    /\ r.status \in {"error", "hang"}
    /\ last' = [actions |-> actions, status |-> r.status,
                visible_layers |-> r.visible_layers,
                selected_layer |-> r.selected_layer, list_idx |-> -1]
    /\ UNCHANGED <<layer_lists, current_layer_list, current_layer,
                   hide_empty_layers, hide_empty_layers_user_cfg, user_choice,
                   has_layer_list_name, deferred, view_open, deferred_raised,
                   menu_vars,
                   catalog_vars>>

trigger_shortcut(actions) ==
    LET r == run_actions(actions,
                         begin_layers(layer_lists, source_list_idx),
                         [visible_layers |-> <<>>, selected_layer |-> None])
    IN \/ TriggerReset(actions, r)
       \/ TriggerInstall(actions, r)
       \/ TriggerError(actions, r)

\* select_layer(list_idx, layer), run by the event loop: the first layer of
\* the tab with the name of `layer` becomes the current layer.
select_layer(lists, list_idx, layer) ==
    LET ls == begin_layers(lists, list_idx)
        hits == {i \in 1..Len(ls) : ls[i].name = layer.name}
    IN IF hits = {} THEN None
       ELSE Some([list |-> list_idx,
                  pos |-> CHOOSE i \in hits : \A j \in hits : i <= j])

RunDeferred ==
    /\ deferred # <<>>
    /\ Head(deferred).op = "select_layer"
    /\ view_open
    /\ LET d == Head(deferred)
           sel == select_layer(layer_lists, d.li, layer_lists[1].layers[d.sl])
       IN current_layer' = IF sel = None THEN current_layer ELSE sel
    /\ deferred' = Tail(deferred)
    /\ UNCHANGED <<layer_lists, current_layer_list, hide_empty_layers,
                   hide_empty_layers_user_cfg, user_choice, has_layer_list_name, last,
                   view_open, deferred_raised, menu_vars,
                   catalog_vars>>

\* The deferred select_layer runs when the view is gone: self.view is None and
\* `self.view.begin_layers` raises an AttributeError.
RunDeferredWithoutView ==
    /\ deferred # <<>>
    /\ Head(deferred).op = "select_layer"
    /\ ~view_open
    /\ deferred' = Tail(deferred)
    /\ deferred_raised' = TRUE
    /\ UNCHANGED <<layer_lists, current_layer_list, current_layer,
                   hide_empty_layers, hide_empty_layers_user_cfg, user_choice,
                   has_layer_list_name, last, view_open, menu_vars,
                   catalog_vars>>

\* The host closes the view: its layer lists and its selection go with it.
CloseView ==
    /\ view_open
    /\ view_open' = FALSE
    /\ layer_lists' = <<>>
    /\ current_layer_list' = 0
    /\ current_layer' = None
    /\ last' = NoTrigger
    /\ UNCHANGED <<hide_empty_layers, hide_empty_layers_user_cfg, user_choice,
                   has_layer_list_name, deferred, deferred_raised, menu_vars,
                   catalog_vars>>

\* The user changes 'hide-empty-layers' in the host: the host stores the
\* value and calls configure with it.
UserSetsHideEmptyLayers ==
    /\ \E b \in BOOLEAN :
           /\ user_choice' = b
           /\ hide_empty_layers' = (config_value(b) = "true")
           /\ hide_empty_layers_user_cfg' =
                  configure_hide_empty_layers(hide_empty_layers_user_cfg,
                                              config_value(b), FALSE)
    /\ UNCHANGED <<layer_lists, current_layer_list, current_layer,
                   has_layer_list_name, last, view_open, deferred_raised,
                   deferred, menu_vars, catalog_vars>>

Next ==
    \/ \E actions \in ShortcutActions : trigger_shortcut(actions)
    \/ RunDeferred
    \/ RunDeferredWithoutView
    \/ CloseView
    \/ UserSetsHideEmptyLayers

Spec == Init /\ [][Next]_vars

\* ------------------------------------------------- menu set-up specification
SetupInit ==
    /\ InitView({SubSeq(AllLayers, 2, 5)})
    /\ has_layer_list_name
    /\ ~hide_empty_layers_user_cfg
    /\ InitMenu(BOOLEAN, Technologies, ReboundKeys)
    /\ deferred = <<>>
    /\ InitScanned

SetupNext ==
    \/ on_current_view_changed
    \/ on_view_created
    \/ menu_activated
    \/ configure_initial_technology
    \/ RunHandler
    \/ FileOpen
    \/ ChangeTechnology
    \/ UserBindsKey

SetupSpec == SetupInit /\ [][SetupNext]_vars

\* ------------------------------------------------- catalog specification
\* One turn of the scan loop of PDKInfoFactory.__init__.
ScanFile ==
    /\ scan_status = "running"
    /\ LET f == json_files[scan_pos + 1]
           r == scan_file(factory_catalog, f)
       IN /\ factory_catalog' = r.catalog
          /\ last_read' = [path |-> f.path, text |-> f.text,
                           pdk_info |-> r.pdk_info, status |-> r.status]
          /\ scan_status' = IF r.status = "aborted" THEN "aborted"
                            ELSE IF scan_pos + 1 = Len(json_files) THEN "done"
                            ELSE "running"
    /\ scan_pos' = scan_pos + 1
    /\ UNCHANGED <<json_files, last_lookup, view_vars, deferred, menu_vars>>

\* A caller asks the constructed factory for the configuration of a technology.
LookupPdkInfo ==
    /\ scan_status = "done"
    /\ \E t \in Technologies :
           last_lookup' = [tech_name |-> t,
                           pdk_info |-> factory_pdk_info(factory_catalog, t)]
    /\ UNCHANGED <<json_files, scan_pos, scan_status, factory_catalog, last_read,
                   view_vars, deferred, menu_vars>>

CatalogInit ==
    /\ InitView({SubSeq(AllLayers, 2, 5)})
    /\ has_layer_list_name
    /\ ~hide_empty_layers_user_cfg
    /\ InitMenu({FALSE}, {"sg13g2"}, {"0"})
    /\ deferred = <<>>
    /\ InitFactory(Directories)

CatalogNext ==
    \/ ScanFile
    \/ LookupPdkInfo

CatalogSpec == CatalogInit /\ [][CatalogNext]_vars

\* ===================================================================
\* Properties of the shortcut executor (specification Spec)
\* ===================================================================
SourceLayers == layer_lists[1].layers

\* A layer's identifier: its name, or its source when it has no name.
Identifier(lp) == IF lp.name = "" THEN lp.source ELSE lp.name

\* The union of the layers of the groups named in `names`.
GroupUnion(names) ==
    UNION {Range(layer_group_definitions[i].layers) :
              i \in {j \in 1..Len(layer_group_definitions) :
                        layer_group_definitions[j].name \in Range(names)}}

\* What a descriptor includes, by the rules of the Action Interpreter.
Classified(d, lp) ==
    \/ d.kind = "all"
    \/ d.kind = "layers" /\ lp.name \in Range(d.layers[1])
    \/ d.kind = "layer_groups" /\ Identifier(lp) \in GroupUnion(d.layer_groups[1])

Positions(src) == [i \in 1..Len(src) |-> i]

IncludedPositions(d, src) ==
    SelectSeq(Positions(src), LAMBDA i : Classified(d, src[i]))

ExcludedPositions(d, src) ==
    SelectSeq(Positions(src), LAMBDA i : ~Classified(d, src[i]))

\* Name and source of the layers of a list, without the visibility flag.
Unflagged(ls) == [i \in 1..Len(ls) |-> <<ls[i].name, ls[i].source>>]

\* The tab the last shortcut filled.
InstalledTab == layer_lists[last.list_idx + 1]

ExampleSnapshot == SubSeq(AllLayers, 2, 5)

ExampleShortcut ==
    <<Hide(DAll), Show(DGroups(<<"Metal1.Visible">>)),
      Select(DGroups(<<"Metal1.Selected">>))>>

\* C1: after a shortcut [Hide(All), Show(ByGroups(V)), Select(ByGroups(S))]
\* the LayNav tab holds exactly the source layers whose identifier is in the
\* union of the groups V, all visible, and the layer handed on as selected (if
\* any source layer is in the groups S, there is one) has its identifier in the
\* groups S; for the Metal1 example the tab is Metal1.drawing, Via1.drawing,
\* Cont.drawing and the selected layer is Metal1.drawing.
C1_GroupShortcutResult ==
    \A v \in VisibleGroupLists, s \in SelectedGroupLists :
        (/\ last.status = "done"
         /\ last.actions = <<Hide(DAll), Show(DGroups(v)), Select(DGroups(s))>>)
        => /\ InstalledTab.name = "LayNav"
           /\ Unflagged(InstalledTab.layers) =
                  Unflagged(SelectSeq(SourceLayers,
                      LAMBDA lp : Identifier(lp) \in GroupUnion(v)))
           /\ \A i \in 1..Len(InstalledTab.layers) :
                  InstalledTab.layers[i].visible
           /\ last.selected_layer # None =>
                  Identifier(SourceLayers[last.selected_layer[1]])
                      \in GroupUnion(s)
           /\ (\E i \in 1..Len(SourceLayers) :
                  Identifier(SourceLayers[i]) \in GroupUnion(s))
                  => last.selected_layer # None
           /\ (/\ Unflagged(SourceLayers) = Unflagged(ExampleSnapshot)
               /\ last.actions = ExampleShortcut)
              => /\ {l.name : l \in Range(InstalledTab.layers)} =
                        {"Metal1.drawing", "Via1.drawing", "Cont.drawing"}
                 /\ SourceLayers[last.selected_layer[1]].name = "Metal1.drawing"

\* C1 witness: the Metal1 example was triggered on the four-layer snapshot and
\* filled the tab with three layers.
C1_Witness ==
    /\ last.status = "done"
    /\ last.actions = ExampleShortcut
    /\ Unflagged(SourceLayers) = Unflagged(ExampleSnapshot)
    /\ Len(InstalledTab.layers) = 3
    /\ last.selected_layer # None

\* The accumulated visible list before the last action of the last shortcut.
VisibleBeforeLastAction ==
    run_actions(SubSeq(last.actions, 1, Len(last.actions) - 1), SourceLayers,
                [visible_layers |-> <<>>, selected_layer |-> None]).visible_layers

LastActionIs(kind) ==
    /\ last.status = "done"
    /\ last.actions # <<>>
    /\ last.actions[Len(last.actions)].kind = kind

\* C2 as claimed: a Hide action never adds a layer to the accumulated visible
\* set: the visible set after it is a subset of the visible set before it.
C2_HideNeverAdds ==
    LastActionIs("hide_layers")
    => Range(last.visible_layers) \subseteq Range(VisibleBeforeLastAction)

\* C2 amended: a Hide action appends to the accumulated visible list exactly
\* the layers its descriptor excludes, in enumeration order, and never a layer
\* its descriptor includes.
C2_HideAddsExcluded ==
    LastActionIs("hide_layers")
    => last.visible_layers =
           VisibleBeforeLastAction
           \o ExcludedPositions(last.actions[Len(last.actions)].layers,
                                SourceLayers)

\* C2 witness: a Hide whose descriptor includes some layers and excludes
\* others was executed behind a Show.
C2_Witness ==
    /\ LastActionIs("hide_layers")
    /\ Len(last.actions) = 2
    /\ VisibleBeforeLastAction # <<>>
    /\ IncludedPositions(last.actions[2].layers, SourceLayers) # <<>>
    /\ ExcludedPositions(last.actions[2].layers, SourceLayers) # <<>>

\* C3: in a shortcut Show(D1), Hide(D2) no layer D2 includes is in the final
\* visible list, whatever D1 included.
C3_LaterHideOverridesShow ==
    (/\ last.status = "done"
     /\ Len(last.actions) = 2
     /\ last.actions[1].kind = "show_layers"
     /\ last.actions[2].kind = "hide_layers")
    => /\ \A i \in Range(last.visible_layers) :
              ~Classified(last.actions[2].layers, SourceLayers[i])
       /\ \A l \in Range(InstalledTab.layers) :
              ~Classified(last.actions[2].layers, l)

\* C4 as claimed: after a single Select action the selected layer is the
\* first layer of the source list that the descriptor includes.
C4_SelectsFirstIncluded ==
    (/\ last.status = "done"
     /\ Len(last.actions) = 1
     /\ last.actions[1].kind = "select_layers"
     /\ IncludedPositions(last.actions[1].layers, SourceLayers) # <<>>)
    => last.selected_layer =
           Some(Head(IncludedPositions(last.actions[1].layers, SourceLayers)))

\* C4 amended: after a single Select action the selected layer is the LAST
\* layer of the source list that the descriptor includes (none if it includes
\* no layer).
C4_SelectsLastIncluded ==
    (/\ last.status = "done"
     /\ Len(last.actions) = 1
     /\ last.actions[1].kind = "select_layers")
    => LET incl == IncludedPositions(last.actions[1].layers, SourceLayers)
       IN last.selected_layer =
              IF incl = <<>> THEN None ELSE Some(incl[Len(incl)])

\* C4 witness: a single Select whose descriptor includes several layers.
C4_Witness ==
    /\ last.status = "done"
    /\ Len(last.actions) = 1
    /\ last.actions[1].kind = "select_layers"
    /\ Len(IncludedPositions(last.actions[1].layers, SourceLayers)) >= 2
    /\ last.selected_layer # None

\* C5: after a shortcut that reached ResetShowAll / ResetHideAll the view is
\* back on tab 0, no tab named LayNav exists, and every layer of the source
\* list is visible (ResetShowAll) or hidden (ResetHideAll).
C5_ResetShortCircuits ==
    last.status \in ResetKinds
    => /\ current_layer_list = 0
       /\ \A i \in 1..Len(layer_lists) : layer_lists[i].name # "LayNav"
       /\ \A i \in 1..Len(SourceLayers) :
              SourceLayers[i].visible =
                  (last.status = "reset_and_show_all_layers")

\* Some action of the shortcut names a group the configuration does not define.
NamesUnknownGroup(actions) ==
    \E i \in 1..Len(actions) :
        /\ actions[i].layers.kind = "layer_groups"
        /\ actions[i].layers.layer_groups # None
        /\ \E n \in Range(actions[i].layers.layer_groups[1]) :
              \A j \in 1..Len(layer_group_definitions) :
                  layer_group_definitions[j].name # n

\* C10: a shortcut with a ByGroups descriptor that names an undefined group
\* ends in an error and installs nothing.
C10_UnknownGroupFails ==
    (last.status # "none" /\ NamesUnknownGroup(last.actions))
    => /\ last.status = "error"
       /\ \A i \in 1..Len(layer_lists) : layer_lists[i].name # "LayNav"

\* The positions of the layers without identifier (no name and no source).
AnonymousPositions(src) ==
    SelectSeq(Positions(src), LAMBDA i : src[i].name = "" /\ src[i].source = "")

HasGroupsAction(actions) ==
    \E i \in 1..Len(actions) :
        actions[i].layers.kind = "layer_groups"
        /\ actions[i].layers.layer_groups # None

Normalised(src) ==
    [i \in 1..Len(src) |-> LayerProperties(src[i].name, src[i].source, TRUE)]

\* The visible list a non-reset shortcut accumulates, from its actions and the
\* names and sources of the source layers alone: a Show appends the layers
\* it includes, a Hide the layers it excludes.
RECURSIVE ExpectedVisible(_, _)
ExpectedVisible(actions, src) ==
    IF actions = <<>> THEN <<>>
    ELSE LET a == actions[Len(actions)]
             before == ExpectedVisible(SubSeq(actions, 1, Len(actions) - 1), src)
         IN before \o (CASE a.kind = "show_layers" ->
                                IncludedPositions(a.layers, src)
                         [] a.kind = "hide_layers" ->
                                ExcludedPositions(a.layers, src)
                         [] OTHER -> <<>>)

\* The Select actions of a shortcut that include at least one source layer.
MatchingSelects(actions, src) ==
    SelectSeq([i \in 1..Len(actions) |-> i],
              LAMBDA i : /\ actions[i].kind = "select_layers"
                         /\ IncludedPositions(actions[i].layers, src) # <<>>)

\* The selected layer of a non-reset shortcut, from its actions and the names
\* and sources of the source layers alone.
ExpectedSelected(actions, src) ==
    LET m == MatchingSelects(actions, src) IN
    IF m = <<>> THEN None
    ELSE LET incl == IncludedPositions(actions[m[Len(m)]].layers, src)
         IN Some(incl[Len(incl)])

\* C13: what a non-reset shortcut installs is a function of the shortcut and
\* of the names and sources of the source layer list alone: the LayNav tab
\* holds exactly the layers that function gives, all visible, and the
\* selected layer is the one it gives, whatever the tab held, whatever was
\* selected or visible before and whichever shortcuts ran before.
C13_ResultDetermined ==
    last.status = "done"
    => LET src == Normalised(SourceLayers)
           ev == ExpectedVisible(last.actions, src)
       IN /\ InstalledTab.name = "LayNav"
          /\ InstalledTab.layers = [k \in 1..Len(ev) |-> src[ev[k]]]
          /\ last.selected_layer = ExpectedSelected(last.actions, src)

\* C13 witness: a shortcut filled the tab and selected a layer in a view in
\* which an earlier reset had hidden the source layers.
C13_Witness ==
    /\ last.status = "done"
    /\ has_layer_list_name
    /\ InstalledTab.layers # <<>>
    /\ last.selected_layer # None
    /\ deferred # <<>>
    /\ \E i \in 1..Len(SourceLayers) : ~SourceLayers[i].visible

\* C14: a non-reset shortcut that ran to its end leaves the visibility flag
\* of every layer of the source layer list (list 0) as it was.
C14_SourceFlagsKept ==
    [][(last' # last /\ last'.status = "done")
       => /\ Len(layer_lists'[1].layers) = Len(layer_lists[1].layers)
          /\ \A i \in 1..Len(layer_lists[1].layers) :
                 layer_lists'[1].layers[i].visible =
                     layer_lists[1].layers[i].visible]_vars

\* C15: a shortcut that fails in one of its actions (an action of unknown
\* kind, a descriptor without the data its kind needs) leaves the layer
\* lists, the LayNav tab, the current tab, the selection, the pending deferred
\* operations and the hide-empty-layers setting exactly as they were, however
\* many of its actions ran before.
C15_ErrorLeavesStateUntouched ==
    [][(last' # last /\ last'.status = "error")
       => UNCHANGED <<layer_lists, current_layer_list, current_layer,
                      hide_empty_layers, hide_empty_layers_user_cfg,
                      deferred>>]_vars

\* C15 witness: a shortcut failed behind an action that had already gathered
\* layers, in a view that holds a filled LayNav tab and has hide-empty-layers
\* set.
C15_Witness ==
    /\ last.status = "error"
    /\ Len(last.actions) >= 2
    /\ last.visible_layers # <<>>
    /\ hide_empty_layers
    /\ \E i \in 1..Len(layer_lists) :
           layer_lists[i].name = "LayNav" /\ layer_lists[i].layers # <<>>

\* The deferred select_layer at the head of the queue is stale: the view is
\* closed, or the tab it was scheduled for is gone.
StaleSelect ==
    /\ deferred # <<>>
    /\ Head(deferred).op = "select_layer"
    /\ \/ ~view_open
       \/ Head(deferred).li + 1 > Len(layer_lists)

\* C16: a stale deferred select_layer, when it runs, raises no error and
\* leaves the selection as it was.
C16_StaleSelectIsNoOp ==
    [][(StaleSelect /\ deferred' = Tail(deferred))
       => /\ ~deferred_raised'
          /\ current_layer' = current_layer]_vars

\* C19: a shortcut leaves at most one selected layer, and when two or more of
\* its Select actions each include a source layer, the selected layer is one
\* the last of these Select actions includes.
C19_LastSelectWins ==
    last.status = "done"
    => /\ Len(last.selected_layer) <= 1
       /\ LET m == MatchingSelects(last.actions, SourceLayers) IN
          Len(m) >= 2
          => \E p \in Range(IncludedPositions(last.actions[m[Len(m)]].layers,
                                               SourceLayers)) :
                 last.selected_layer = Some(p)

\* C19 witness: two Select actions of one shortcut each included a layer, and
\* the selected layer is not one the first of them includes.
C19_Witness ==
    /\ last.status = "done"
    /\ LET m == MatchingSelects(last.actions, SourceLayers) IN
       /\ Len(m) >= 2
       /\ last.selected_layer # None
       /\ last.selected_layer[1] \notin
              Range(IncludedPositions(last.actions[m[1]].layers, SourceLayers))

\* C23: a ByGroups descriptor resolves to exactly the layers of the union of
\* the groups it names, each layer once, and to the same layers whatever the
\* order of the names and however often a name is repeated.
C23_GroupsResolveToUnion ==
    \A g \in ReorderedGroupLists :
        (last.status = "done" /\ last.actions = <<Show(DGroups(g))>>)
        => /\ last.visible_layers =
                  SelectSeq(Positions(SourceLayers),
                      LAMBDA i : Identifier(SourceLayers[i]) \in
                          GroupUnion(<<"Metal1.Visible", "Metal2.Visible">>))
           /\ \A i, j \in 1..Len(last.visible_layers) :
                  last.visible_layers[i] = last.visible_layers[j] => i = j
           /\ Unflagged(InstalledTab.layers) =
                  Unflagged([k \in 1..Len(last.visible_layers) |->
                                SourceLayers[last.visible_layers[k]]])

\* C23 witness: a Show whose descriptor names Metal2.Visible before
\* Metal1.Visible and names it twice ran on the four-layer snapshot, which
\* holds a layer of both groups.
C23_Witness ==
    /\ last.status = "done"
    /\ last.actions = <<Show(DGroups(<<"Metal2.Visible", "Metal1.Visible",
                                        "Metal2.Visible">>))>>
    /\ Unflagged(SourceLayers) = Unflagged(ExampleSnapshot)
    /\ Len(InstalledTab.layers) = 4

\* C25: whatever shortcuts were triggered, on whatever host, the view has at
\* most one tab named LayNav.
C25_OneLayNavTab ==
    Cardinality({i \in 1..Len(layer_lists) : layer_lists[i].name = "LayNav"}) <= 1

\* C26: the LayNav tab a shortcut installs holds each source layer at most
\* once.
C26_TabHoldsLayerOnce ==
    last.status = "done"
    => /\ \A i, j \in 1..Len(last.visible_layers) :
              last.visible_layers[i] = last.visible_layers[j] => i = j
       /\ \A i, j \in 1..Len(InstalledTab.layers) :
              Unflagged(InstalledTab.layers)[i] = Unflagged(InstalledTab.layers)[j]
              => i = j

\* C27: the recorded hide-empty-layers preference is the value the user chose
\* last, in every state (the plugin's own writes do not change it); a
\* non-reset shortcut that ran to its end leaves the host setting false, and
\* after a reset shortcut the host setting is the value the user chose last.
C27_UserPreferenceKept ==
    [][/\ hide_empty_layers_user_cfg' = user_choice'
       /\ (last' # last /\ last'.status = "done") => ~hide_empty_layers'
       /\ (last' # last /\ last'.status \in ResetKinds)
              => hide_empty_layers' = user_choice']_vars

\* C27 witness: with hide-empty-layers chosen on, a non-reset shortcut had
\* switched the host setting off (its tab is still there, the host cannot
\* tell tab names), and a reset shortcut has put the setting back on.
C27_Witness ==
    /\ last.status \in ResetKinds
    /\ user_choice
    /\ hide_empty_layers
    /\ hide_empty_layers_user_cfg
    /\ ~has_layer_list_name
    /\ \E i \in 1..Len(layer_lists) : layer_lists[i].name = "LayNav"

\* ===================================================================
\* Properties of the menu set-up (specification SetupSpec)
\* ===================================================================
IsConfigured(t) == t \in DOMAIN pdk_infos_by_tech_name

\* The Shortcut menu items of a technology's configuration, in order.
ConfiguredShortcuts(t) ==
    LET items == SelectSeq(pdk_infos_by_tech_name[t].menu_items,
                           LAMBDA m : m.kind = "shortcut")
    IN [i \in 1..Len(items) |-> items[i].shortcut[1]]

ConfiguredKeys(t) ==
    {ConfiguredShortcuts(t)[i].key : i \in 1..Len(ConfiguredShortcuts(t))}

\* The last setup() ran to its end with a layout of a configured technology.
SetupCompleted ==
    /\ last_setup.status \notin {"none", "early_exit"}
    /\ last_setup.layout_present
    /\ IsConfigured(last_setup.tech_name)

\* C6: after setup() with a layout of a configured technology the plugin's
\* menu group holds one entry per Shortcut menu item of the configuration, in
\* configuration order, each with its configured title and key.
C6_ShortcutMenuInstalled ==
    SetupCompleted
    => LET wanted == ConfiguredShortcuts(last_setup.tech_name) IN
       /\ plugin_menu.group
       /\ Len(plugin_menu.items) = Len(wanted)
       /\ \A i \in 1..Len(wanted) :
              /\ plugin_menu.items[i].key = wanted[i].key
              /\ plugin_menu.items[i].title = wanted[i].title

\* A host entry that collides with the configuration of technology t: its key
\* is bound, is a configured key, and its path is not one of the plugin's.
Collides(e, t) ==
    /\ e.key # "" /\ e.key # NoKey
    /\ e.key \in ConfiguredKeys(t)
    /\ ~IsPluginPath(e.path)

\* C7: setup() with a layout of a configured technology reports as conflicts
\* exactly the host entries that collide with the configured keys.
C7_ConflictsReported ==
    SetupCompleted
    => {last_setup.conflicts[i].path : i \in 1..Len(last_setup.conflicts)} =
           {e.path : e \in {x \in Range(last_setup.host_menu) :
                               Collides(x, last_setup.tech_name)}}

SharedKeys(t) ==
    LET cs == ConfiguredShortcuts(t) IN
    {cs[i].key : i \in {k \in 1..Len(cs) :
                           \E j \in 1..Len(cs) : j # k /\ cs[j].key = cs[k].key}}

\* C12: setup() with a layout of a technology whose configuration gives two
\* shortcuts the same key reports a 'defined multiple times' error for that
\* key, whether or not a host entry collides.
C12_DuplicateKeyFlagged ==
    SetupCompleted
    => \A k \in SharedKeys(last_setup.tech_name) :
           \E i \in 1..Len(last_setup.duplicate_keys) :
               last_setup.duplicate_keys[i] = k

\* The last setup() ran in a resting state: without a layout, or with a
\* layout of a technology that has no configuration.
SetupAtRest ==
    /\ last_setup.status \notin {"none", "early_exit"}
    /\ \/ ~last_setup.layout_present
       \/ ~IsConfigured(last_setup.tech_name)

\* C18: after setup() in a resting state no plugin shortcut entry is
\* installed, no conflict prompt was shown and setup() met no exception.
C18_RestingStateInstallsNothing ==
    SetupAtRest
    => /\ plugin_menu.items = <<>>
       /\ ~last_setup.prompted
       /\ last_setup.status \in {"cleared", "no_pdk"}

\* C18 witness: setup() ran from the file-open callback with a layout of a
\* technology without configuration.
C18_Witness ==
    /\ SetupAtRest
    /\ last_setup.layout_present
    /\ last_setup.status = "no_pdk"
    /\ tech_name = last_setup.tech_name
    /\ file_open_connected

\* C20: after setup() with a layout of a configured technology, however often
\* it ran, the plugin's menu is one separator, one group and one entry per
\* shortcut of the configuration, no entry path twice; after setup() without
\* a layout the group has no entries.
C20_MenuIdempotent ==
    /\ SetupCompleted
       => /\ plugin_menu.separator
          /\ plugin_menu.group
          /\ Len(plugin_menu.items) =
                 Len(ConfiguredShortcuts(last_setup.tech_name))
          /\ \A i, j \in 1..Len(plugin_menu.items) :
                 plugin_menu.items[i].path = plugin_menu.items[j].path => i = j
    /\ (last_setup.status # "none" /\ ~last_setup.layout_present)
       => plugin_menu.items = <<>>

\* ===================================================================
\* Properties of the configuration catalog (specification CatalogSpec)
\* ===================================================================
\* The configuration a file was written from, if write_json wrote it.
WrittenFrom(f) == {pi \in ExamplePDKInfos : f.text = write_json(pi)}

\* The files among the first n of json_files that define technology t.
DefiningFiles(t, n) ==
    {i \in 1..n : \E pi \in WrittenFrom(json_files[i]) : pi.tech_name = t}

Last(S) == CHOOSE i \in S : \A j \in S : j <= i

\* C21: once the scan is over, a technology that several files define maps
\* to the configuration of the file that comes last in scan order, and each
\* pdk_info lookup (the catalog is the same before and after it) returns that
\* configuration, or nothing for a technology no file defines.
C21_LastFileWins ==
    scan_status = "done"
    => \A t \in Technologies :
           LET d == DefiningFiles(t, Len(json_files)) IN
           /\ d # {} => /\ t \in DOMAIN factory_catalog
                        /\ factory_catalog[t] \in WrittenFrom(json_files[Last(d)])
           /\ last_lookup.tech_name = t
              => last_lookup.pdk_info =
                     IF d = {} THEN None ELSE Some(factory_catalog[t])

\* C21 witness: two files defined the same technology with different
\* configurations, and a lookup returned the configuration of the later one.
C21_Witness ==
    /\ scan_status = "done"
    /\ \E i, j \in 1..Len(json_files) :
           /\ i < j
           /\ json_files[i].text # json_files[j].text
           /\ i \in DefiningFiles("sg13g2", Len(json_files))
           /\ j = Last(DefiningFiles("sg13g2", Len(json_files)))
           /\ last_lookup.tech_name = "sg13g2"
           /\ last_lookup.pdk_info # None
           /\ last_lookup.pdk_info[1] \in WrittenFrom(json_files[j])

\* C22: reading back a file that write_json wrote from a configuration gives
\* a configuration equal to the one written, field for field: technology
\* name, group definitions, menu items with shortcuts, actions, descriptors,
\* kinds and absent optional fields.
C22_RoundTrip ==
    \A pi \in ExamplePDKInfos :
        last_read.text = write_json(pi)
        => /\ last_read.status = "stored"
           /\ last_read.pdk_info = Some(pi)

\* C22 witness: the file read back holds a separator (a menu item without
\* shortcut) and descriptors without layers and layer_groups.
C22_Witness ==
    /\ last_read.status = "stored"
    /\ \E pi \in ExamplePDKInfos :
           /\ last_read.text = write_json(pi)
           /\ \E i \in 1..Len(pi.menu_items) : pi.menu_items[i].shortcut = None
           /\ \E i \in 1..Len(pi.menu_items) :
                  /\ pi.menu_items[i].shortcut # None
                  /\ \E k \in 1..Len(pi.menu_items[i].shortcut[1].actions) :
                         pi.menu_items[i].shortcut[1].actions[k].layers.layers
                             = None

\* C24: the scan is never aborted by a malformed file: it goes on to the last
\* file, and the catalog holds an entry for exactly the technologies the
\* well-formed files scanned so far define.
C24_MalformedSkipped ==
    /\ scan_status # "aborted"
    /\ (scan_status = "done") = (scan_pos = Len(json_files))
    /\ DOMAIN factory_catalog =
           {t \in Technologies : DefiningFiles(t, scan_pos) # {}}
    /\ last_read.status = "skipped" => WrittenFrom(last_read) = {}

\* C24 witness: the scan ended on a search path with a file that is not
\* JSON, then a well-formed file, then a JSON file of the wrong shape.
C24_Witness ==
    /\ scan_status = "done"
    /\ Len(json_files) = 3
    /\ json_files[1].text = NotJson
    /\ WrittenFrom(json_files[2]) # {}
    /\ WrittenFrom(json_files[3]) = {}
    /\ json_files[3].text # NotJson
    /\ DOMAIN factory_catalog # {}

====
